---- MODULE Spec2Model ----
(***************************************************************************)
(* Shamir secret sharing over Z/pZ as implemented by SecretShare in        *)
(* src/src/lib.rs: split / sample_polynomial / evaluate_polynomial /       *)
(* mod_evaluate_at / recover / lagrange_interpolation / mod_inv / xgcd.    *)
(*                                                                         *)
(* BigInt is modelled by the unbounded integers.  BigInt's `/` and `%`     *)
(* truncate toward zero (the remainder takes the sign of the dividend);    *)
(* they are modelled by TruncDiv and TruncRem, never by TLA+'s \div and %. *)
(* A failed assert! is modelled by the value Panic.                        *)
(***************************************************************************)
EXTENDS Integers, Sequences, FiniteSets

\* ---------------------------------------------------------------- bounds
\* largest modulus tried; the moduli are the primes up to MaxP
MaxP == 5
\* largest threshold t of a configuration
MaxT == 3
\* largest share count n of a configuration
MaxN == 3
\* longest list handed to lagrange_interpolation directly
MaxLen == 2
\* largest argument handed to xgcd directly
MaxArg == 9

VARIABLES
    t, n, p,            \* the SecretShare configuration (lib.rs 12-19)
    pc,                 \* "idle", "xgcd" (inside the while loop) or "done"
    op,                 \* the operation last called
    secret,             \* argument of split
    polynomial,         \* coefficients sampled by split / given to evaluate_polynomial
    shares,             \* Vec<(usize, BigInt)> returned by split / evaluate_polynomial
    input,              \* the share list given to recover / (xs, ys) zipped for lagrange
    x_in,               \* evaluation point given to lagrange_interpolation
    a_in,               \* argument of mod_inv; first argument of xgcd
    b_in,               \* second argument of xgcd
    result,             \* [ok, val]: the returned BigInt, or Panic
    sj, sj_last, tj, tj_last, rj, rj_last   \* locals of xgcd (lib.rs 96-98)

vars == <<t, n, p, pc, op, secret, polynomial, shares, input, x_in, a_in, b_in,
          result, sj, sj_last, tj, tj_last, rj, rj_last>>

\* ------------------------------------------------------- BigInt arithmetic
Abs(v) == IF v < 0 THEN -v ELSE v

\* BigInt % BigInt: remainder with the sign of the dividend (m # 0)
TruncRem(v, m) == IF v >= 0 THEN v % Abs(m) ELSE -((-v) % Abs(m))

\* BigInt / BigInt: quotient rounded toward zero (m # 0)
TruncDiv(v, m) ==
    IF (v >= 0) = (m > 0) THEN Abs(v) \div Abs(m) ELSE -(Abs(v) \div Abs(m))

Ok(v) == [ok |-> TRUE, val |-> v]
Panic == [ok |-> FALSE, val |-> 0]

IsPrime(q) == q >= 2 /\ \A d \in 2..(q - 1) : q % d # 0
Primes == {q \in 2..MaxP : IsPrime(q)}

\* ------------------------------------------------------------------ xgcd
\* the while body with the update of tj_last (lib.rs 104) left out
XgcdIterNoT(r) ==
    LET quotient == TruncDiv(r.rj_last, r.rj) IN
    [rj      |-> r.rj_last - quotient * r.rj,  rj_last |-> r.rj,
     sj      |-> r.sj_last - quotient * r.sj,  sj_last |-> r.sj,
     tj      |-> r.tj_last,                    tj_last |-> r.tj]

\* one pass of the while body, lib.rs 101-107, on the six locals
XgcdIter(r) ==
    LET quotient == TruncDiv(r.rj_last, r.rj) IN
    [rj      |-> r.rj_last - quotient * r.rj,  rj_last |-> r.rj,
     sj      |-> r.sj_last - quotient * r.sj,  sj_last |-> r.sj,
     tj      |-> r.tj_last - quotient * r.tj,  tj_last |-> r.tj]

\* the locals as initialised by lib.rs 96-98
XgcdInit(a, b) ==
    [rj |-> b, rj_last |-> a, sj |-> 0, sj_last |-> 1, tj |-> 1, tj_last |-> 0]

RECURSIVE XgcdLoop(_)
XgcdLoop(r) == IF r.rj = 0 THEN r ELSE XgcdLoop(XgcdIter(r))

\* xgcd(a, b) = (rj_last, sj_last, tj_last) at loop exit, as <<g, x, y>>
xgcd(a, b) ==
    LET r == XgcdLoop(XgcdInit(a, b)) IN <<r.rj_last, r.sj_last, r.tj_last>>

\* --------------------------------------------------------------- mod_inv
\* mod_inv without the assert!(g.is_one()) of lib.rs 91
mod_inv_no_assert(a) ==
    LET num == IF a < 0 THEN a + p ELSE a
        gx  == xgcd(num, p)
    IN  Ok(TruncRem(gx[2] + p, p))

\* mod_inv returning the Bezout coefficient x as xgcd left it
mod_inv_raw(a) ==
    LET num == IF a < 0 THEN a + p ELSE a
        gx  == xgcd(num, p)
    IN  IF gx[1] # 1 THEN Panic ELSE Ok(gx[2])

\* mod_inv, lib.rs 87-93
mod_inv(a) ==
    LET num == IF a < 0 THEN a + p ELSE a
        gx  == xgcd(num, p)
    IN  IF gx[1] # 1 THEN Panic ELSE Ok(TruncRem(gx[2] + p, p))

\* ------------------------------------------------------ polynomial engine
\* outcomes of rng.gen_bigint_range(&low, &high): the half-open range [low, high)
gen_bigint_range(low, high) == low..(high - 1)

\* every coefficient vector sample_polynomial(s) can return (lib.rs 28-38)
sample_polynomial(s) ==
    LET low  == 0
        high == p - 1
    IN  {[k \in 1..t |-> IF k = 1 THEN s ELSE c[k - 1]] :
            c \in [1..(t - 1) -> gen_bigint_range(low, high)]}

\* the fold without .rev(): coefficients taken in the order 1, 2, ..., k
RECURSIVE HornerFwd(_, _, _, _)
HornerFwd(poly, x, k, sum) ==
    IF k > Len(poly) THEN sum
    ELSE HornerFwd(poly, x, k + 1, TruncRem(x * sum + poly[k], p))

\* the fold of lib.rs 48-51 over the coefficients k, k-1, ..., 1
RECURSIVE Horner(_, _, _, _)
Horner(poly, x, k, sum) ==
    IF k = 0 THEN sum
    ELSE Horner(poly, x, k - 1, TruncRem(x * sum + poly[k], p))

mod_evaluate_at_no_rev(poly, x) == HornerFwd(poly, x, 1, 0)

mod_evaluate_at(poly, x) == Horner(poly, x, Len(poly), 0)

evaluate_polynomial(poly) == [x \in 1..n |-> <<x, mod_evaluate_at(poly, x)>>]

\* ------------------------------------------------- lagrange_interpolation
\* inner fold of lib.rs 69-75
RECURSIVE NumeratorFold(_, _, _, _, _)
NumeratorFold(x, xs, item, i, product) ==
    IF i > Len(xs) THEN product
    ELSE NumeratorFold(x, xs, item, i + 1,
            IF i = item THEN product ELSE TruncRem(product * (x - xs[i]), p))

\* the numerator with the factor i == item multiplied in as well
NumeratorNoSkip(x, xs, item) ==
    TruncRem(NumeratorFold(x, xs, item, 1, 1) * (x - xs[item]), p)

Numerator(x, xs, item) == NumeratorFold(x, xs, item, 1, 1)

\* inner fold of lib.rs 76-82
RECURSIVE DenominatorFold(_, _, _, _)
DenominatorFold(xs, item, i, product) ==
    IF i > Len(xs) THEN product
    ELSE DenominatorFold(xs, item, i + 1,
            IF i = item THEN product ELSE TruncRem(product * (xs[item] - xs[i]), p))

\* the denominator with the fold started one index late
DenominatorFrom2(xs, item) == DenominatorFold(xs, item, 2, 1)

Denominator(xs, item) == DenominatorFold(xs, item, 1, 1)

\* outer fold of lib.rs 68-84; a panic of mod_inv ends it
RECURSIVE LagrangeFold(_, _, _, _, _)
LagrangeFold(x, xs, ys, item, sum) ==
    IF item > Len(xs) THEN Ok(sum)
    ELSE LET numerator   == Numerator(x, xs, item)
             denominator == Denominator(xs, item)
             inv         == mod_inv(denominator)
         IN  IF ~inv.ok THEN Panic
             ELSE LagrangeFold(x, xs, ys, item + 1,
                      TruncRem(sum + numerator * inv.val * ys[item], p))

lagrange_interpolation(x, xs, ys) == LagrangeFold(x, xs, ys, 1, 0)

\* shares.iter().cloned().unzip(), lib.rs 56
Xs(shs) == [k \in 1..Len(shs) |-> shs[k][1]]
Ys(shs) == [k \in 1..Len(shs) |-> shs[k][2]]

\* ---------------------------------------------------------------- recover
\* recover without the `result + p` branch of lib.rs 58-59
recover_no_normalize(shs) ==
    IF Len(shs) # t THEN Panic
    ELSE lagrange_interpolation(0, Xs(shs), Ys(shs))

\* recover accepting any list of at least t shares
recover_at_least(shs) ==
    IF Len(shs) < t THEN Panic
    ELSE LET res == lagrange_interpolation(0, Xs(shs), Ys(shs)) IN
         IF res.ok /\ res.val < 0 THEN Ok(res.val + p) ELSE res

\* recover, lib.rs 54-63
recover(shs) ==
    IF Len(shs) # t THEN Panic
    ELSE LET res == lagrange_interpolation(0, Xs(shs), Ys(shs)) IN
         IF res.ok /\ res.val < 0 THEN Ok(res.val + p) ELSE res

\* ------------------------------------------------------------ the machine
Lists(S, lo, hi) == UNION {[1..k -> S] : k \in lo..hi}

NoRegs ==
    /\ sj = 0 /\ sj_last = 0 /\ tj = 0 /\ tj_last = 0 /\ rj = 0 /\ rj_last = 0

Idle ==
    /\ pc = "idle" /\ op = "none"
    /\ secret = 0 /\ polynomial = <<>> /\ shares = <<>> /\ input = <<>>
    /\ x_in = 0 /\ a_in = 0 /\ b_in = 0 /\ result = Ok(0)
    /\ NoRegs

\* a configuration: p prime, t >= 1; n is free, so that t >= n occurs as well
Init ==
    /\ p \in Primes
    /\ t \in 1..MaxT
    /\ n \in 1..MaxN
    /\ Idle

\* split, lib.rs 22-26
Split ==
    /\ pc = "idle"
    /\ \E s \in 0..(p - 1) :
        /\ secret' = s
        /\ IF ~(t < n)
           THEN /\ result' = Panic
                /\ UNCHANGED <<polynomial, shares>>
           ELSE \E poly \in sample_polynomial(s) :
                /\ polynomial' = poly
                /\ shares' = evaluate_polynomial(poly)
                /\ result' = Ok(0)
    /\ pc' = "done" /\ op' = "split"
    /\ UNCHANGED <<t, n, p, input, x_in, a_in, b_in, sj, sj_last, tj, tj_last, rj, rj_last>>

\* evaluate_polynomial on given coefficients, as tests::recover_test calls it
EvaluatePolynomial ==
    /\ pc = "idle"
    /\ \E poly \in [1..t -> 0..(p - 1)] :
        /\ polynomial' = poly
        /\ shares' = evaluate_polynomial(poly)
    /\ pc' = "done" /\ op' = "evaluate_polynomial"
    /\ UNCHANGED <<t, n, p, secret, input, x_in, a_in, b_in, result,
                   sj, sj_last, tj, tj_last, rj, rj_last>>

\* the lists a caller hands to recover: up to t + 1 of the shares split just
\* returned, in any order and with repetitions, or up to t arbitrary shares
RecoverInputs ==
    IF pc = "done" /\ op = "split" /\ result.ok
    THEN Lists({shares[k] : k \in 1..Len(shares)}, 0, t + 1)
    ELSE Lists((1..n) \X (0..(p - 1)), 0, t)

\* recover, lib.rs 54-63
Recover ==
    /\ \/ pc = "idle"
       \/ pc = "done" /\ op = "split" /\ result.ok
    /\ \E shs \in RecoverInputs :
        /\ input' = shs
        /\ result' = recover(shs)
    /\ pc' = "done" /\ op' = "recover"
    /\ UNCHANGED <<t, n, p, secret, polynomial, shares, x_in, a_in, b_in,
                   sj, sj_last, tj, tj_last, rj, rj_last>>

\* lagrange_interpolation called directly, as tests::test_lagrange does
Lagrange ==
    /\ pc = "idle"
    /\ \E shs \in Lists((1..n) \X (0..(p - 1)), 1, MaxLen), x \in 0..n :
        /\ input' = shs
        /\ x_in' = x
        /\ result' = lagrange_interpolation(x, Xs(shs), Ys(shs))
    /\ pc' = "done" /\ op' = "lagrange_interpolation"
    /\ UNCHANGED <<t, n, p, secret, polynomial, shares, a_in, b_in,
                   sj, sj_last, tj, tj_last, rj, rj_last>>

\* mod_inv, lib.rs 87-93
ModInv ==
    /\ pc = "idle"
    /\ \E a \in (-2 * p)..(2 * p) :
        /\ a_in' = a
        /\ result' = mod_inv(a)
    /\ pc' = "done" /\ op' = "mod_inv"
    /\ UNCHANGED <<t, n, p, secret, polynomial, shares, input, x_in, b_in,
                   sj, sj_last, tj, tj_last, rj, rj_last>>

Regs ==
    [rj |-> rj, rj_last |-> rj_last, sj |-> sj, sj_last |-> sj_last,
     tj |-> tj, tj_last |-> tj_last]

SetRegs(r) ==
    /\ rj' = r.rj /\ rj_last' = r.rj_last
    /\ sj' = r.sj /\ sj_last' = r.sj_last
    /\ tj' = r.tj /\ tj_last' = r.tj_last

\* xgcd entered, lib.rs 95-98
XgcdCall ==
    /\ pc = "idle"
    /\ \E a \in 0..MaxArg, b \in 0..MaxArg :
        /\ a_in' = a
        /\ b_in' = b
        /\ SetRegs(XgcdInit(a, b))
    /\ pc' = "xgcd" /\ op' = "xgcd"
    /\ UNCHANGED <<t, n, p, secret, polynomial, shares, input, x_in, result>>

\* one iteration of the while loop, lib.rs 100-108
XgcdStep ==
    /\ pc = "xgcd"
    /\ rj # 0
    /\ SetRegs(XgcdIter(Regs))
    /\ UNCHANGED <<t, n, p, pc, op, secret, polynomial, shares, input, x_in,
                   a_in, b_in, result>>

\* loop exit, lib.rs 109: (rj_last, sj_last, tj_last) is returned
XgcdReturn ==
    /\ pc = "xgcd"
    /\ rj = 0
    /\ pc' = "done"
    /\ result' = Ok(rj_last)
    /\ UNCHANGED <<t, n, p, op, secret, polynomial, shares, input, x_in,
                   a_in, b_in, sj, sj_last, tj, tj_last, rj, rj_last>>

\* the call is over; the next one starts from a fresh state
Return ==
    /\ pc = "done"
    /\ pc' = "idle" /\ op' = "none"
    /\ secret' = 0 /\ polynomial' = <<>> /\ shares' = <<>> /\ input' = <<>>
    /\ x_in' = 0 /\ a_in' = 0 /\ b_in' = 0 /\ result' = Ok(0)
    /\ sj' = 0 /\ sj_last' = 0 /\ tj' = 0 /\ tj_last' = 0 /\ rj' = 0 /\ rj_last' = 0
    /\ UNCHANGED <<t, n, p>>

Next ==
    \/ Split
    \/ EvaluatePolynomial
    \/ Recover
    \/ Lagrange
    \/ ModInv
    \/ XgcdCall
    \/ XgcdStep
    \/ XgcdReturn
    \/ Return

Spec == Init /\ [][Next]_vars

\* ------------------------------------------------------------- properties
Done(o) == pc = "done" /\ op = o

Divides(d, v) == IF d = 0 THEN v = 0 ELSE v % Abs(d) = 0

\* g is the greatest common divisor of a and b (gcd(0, 0) = 0)
IsGcd(g, a, b) ==
    /\ g >= 0
    /\ Divides(g, a) /\ Divides(g, b)
    /\ \A d \in 1..(Abs(a) + Abs(b)) : (Divides(d, a) /\ Divides(d, b)) => Divides(d, g)

\* the two triples of xgcd are Bezout combinations of the arguments, and the
\* returned triple is (gcd, x, y)
XgcdInv ==
    (op = "xgcd" /\ pc \in {"xgcd", "done"}) =>
        /\ rj_last = a_in * sj_last + b_in * tj_last
        /\ rj = a_in * sj + b_in * tj
        /\ rj >= 0
        /\ pc = "done" =>
            /\ rj = 0
            /\ a_in * sj_last + b_in * tj_last = rj_last
            /\ IsGcd(rj_last, a_in, b_in)
            /\ <<rj_last, sj_last, tj_last>> = xgcd(a_in, b_in)

\* every pass of the while loop makes the remainder rj strictly smaller
XgcdDecreases == (pc = "xgcd" /\ pc' = "xgcd") => (0 <= rj' /\ rj' < rj)

\* C10: for a >= 0 and b >= 0 the loop of xgcd keeps rj_last = a*sj_last + b*tj_last
\* and rj = a*sj + b*tj at every iteration, the remainder rj >= 0 strictly decreases
\* at every iteration (so the loop ends), and the triple returned is (g, x, y) with
\* a*x + b*y = g = gcd(a, b).
C10_Xgcd == []XgcdInv /\ [][XgcdDecreases]_vars

\* xgcd(9, 6) has returned (3, 1, -1) after three passes of the loop
C10_Witness ==
    /\ Done("xgcd") /\ a_in = 9 /\ b_in = 6
    /\ rj_last = 3 /\ sj_last = 1 /\ tj_last = -1

\* C9: for -p < a < p with a not congruent to 0 modulo p, mod_inv(a) passes its
\* assertion and returns r in [0, p-1] with (a * r) mod p = 1; the Bezout
\* coefficient x satisfies x + p >= 0, so (x + p) % p is not negative.
C9_ModInv ==
    (Done("mod_inv") /\ -p < a_in /\ a_in < p /\ a_in % p # 0) =>
        /\ result.ok
        /\ 0 <= result.val /\ result.val <= p - 1
        /\ (a_in * result.val) % p = 1
        /\ xgcd(IF a_in < 0 THEN a_in + p ELSE a_in, p)[2] + p >= 0

\* mod_inv(2) modulo 5: xgcd returns the negative coefficient -2, normalised to 3
C9_Witness ==
    /\ Done("mod_inv") /\ p = 5 /\ a_in = 2
    /\ xgcd(2, 5)[2] = -2
    /\ result = Ok(3)

RECURSIVE Pow(_, _)
Pow(b, e) == IF e = 0 THEN 1 ELSE b * Pow(b, e - 1)

RECURSIVE PolySum(_, _, _)
PolySum(poly, x, k) ==
    IF k = 0 THEN 0 ELSE poly[k] * Pow(x, k - 1) + PolySum(poly, x, k - 1)

\* (a0 + a1*x + ... + a(t-1)*x^(t-1)) mod p
RefEval(poly, x) == PolySum(poly, x, Len(poly)) % p

\* C3: evaluate_polynomial on coefficients in [0, p-1] (and split, with a0 the
\* secret) returns exactly n shares, the i-th with index i and with the value
\* (a0 + a1*i + ... + a(t-1)*i^(t-1)) mod p, which lies in [0, p-1].
C3_Shares ==
    (Done("evaluate_polynomial") \/ (Done("split") /\ result.ok)) =>
        /\ Len(polynomial) = t
        /\ Done("split") => polynomial[1] = secret
        /\ Len(shares) = n
        /\ \A i \in 1..n :
            /\ shares[i][1] = i
            /\ shares[i][2] = RefEval(polynomial, i)
            /\ shares[i][2] = mod_evaluate_at(polynomial, i)
            /\ shares[i][2] \in 0..(p - 1)

\* a degree-2 polynomial with leading coefficient p-1 evaluated at 3 points
C3_Witness ==
    /\ Done("evaluate_polynomial") /\ t = 3 /\ n = 3 /\ p = 5
    /\ polynomial = <<3, 1, 4>>
    /\ shares = <<<<1, 3>>, <<2, 1>>, <<3, 2>>>>

DistinctIdx(shs) ==
    \A i, j \in 1..Len(shs) : i # j => shs[i][1] # shs[j][1]

DistinctIdxModP(shs) ==
    \A i, j \in 1..Len(shs) : i # j => (shs[i][1] - shs[j][1]) % p # 0

\* C4: when recover returns on exactly t shares with pairwise-distinct indices in
\* [1, n] and values in [0, p-1], the value returned is in [0, p-1]; the raw
\* interpolation result is above -p, so adding p once suffices.
C4_Range ==
    (Done("recover") /\ Len(input) = t /\ DistinctIdx(input) /\ result.ok) =>
        /\ 0 <= result.val /\ result.val <= p - 1
        /\ lagrange_interpolation(0, Xs(input), Ys(input)).val > -p

\* recover has returned after a negative raw interpolation result
C4_Witness ==
    /\ Done("recover") /\ Len(input) = t /\ t >= 2 /\ DistinctIdx(input)
    /\ result.ok
    /\ lagrange_interpolation(0, Xs(input), Ys(input)).val < 0
    /\ result.val = lagrange_interpolation(0, Xs(input), Ys(input)).val + p

\* C5: recover on exactly t >= 2 shares two of which carry the same index meets a
\* zero denominator, mod_inv's assertion fails on it, and recover panics
\* whatever the share values are.
C5_Duplicate ==
    (Done("recover") /\ Len(input) = t /\ t >= 2 /\ ~DistinctIdx(input)) =>
        /\ result = Panic
        /\ \E item \in 1..t : Denominator(Xs(input), item) = 0
        /\ mod_inv(0) = Panic

\* recover has panicked on two shares of one index and different values
C5_Witness ==
    /\ Done("recover") /\ Len(input) = t /\ t >= 2
    /\ \E i, j \in 1..t : i # j /\ input[i][1] = input[j][1] /\ input[i][2] # input[j][2]
    /\ result = Panic

\* C6: recover panics, and returns nothing, whenever the number of shares
\* supplied differs from t, be it smaller or larger, even when the shares
\* supplied are consistent and interpolation on them would succeed.
C6_Count ==
    (Done("recover") /\ Len(input) # t) => result = Panic

\* recover has panicked on t + 1 distinct shares of one split, on which the
\* interpolation itself yields the secret
C6_Witness ==
    /\ Done("recover") /\ Len(input) = t + 1 /\ Len(shares) = n
    /\ DistinctIdxModP(input)
    /\ lagrange_interpolation(0, Xs(input), Ys(input)).ok
    /\ lagrange_interpolation(0, Xs(input), Ys(input)).val % p = secret
    /\ result = Panic

\* recover was called on t shares, of pairwise-distinct indices, of the split
\* that precedes it
RecoveredSubset ==
    /\ Done("recover") /\ Len(shares) = n /\ 1 <= t /\ t < n
    /\ Len(input) = t /\ DistinctIdx(input)

\* C1 as stated: recover on every size-t subset of the shares of split(s)
\* returns s, for every prime p and 1 <= t < n
C1_RoundTripAll == RecoveredSubset => result = Ok(secret)

\* C1: for 1 <= t < n, p prime and s in [0, p-1], recover on any t shares of
\* split(s) whose indices are pairwise distinct modulo p (every size-t subset
\* when n <= p), in any order, returns exactly s.
C1_RoundTrip ==
    (RecoveredSubset /\ DistinctIdxModP(input)) => result = Ok(secret)

\* the shares of indices 3 and 2 of a split with t = 2, n = 3, p = 5, secret 4
\* and a nonzero random coefficient have been recovered
C1_Witness ==
    /\ RecoveredSubset /\ t = 2 /\ n = 3 /\ p = 5 /\ secret = 4
    /\ Xs(input) = <<3, 2>>
    /\ polynomial[2] # 0
    /\ result = Ok(4)

\* lagrange_interpolation was called at one of its sample points, the xs being
\* pairwise distinct modulo p
AtSample(k) ==
    /\ Done("lagrange_interpolation")
    /\ DistinctIdxModP(input)
    /\ k \in 1..Len(input) /\ x_in = input[k][1]

\* C8 as stated: lagrange_interpolation(xs[k], xs, ys) returns ys[k] itself
C8_IdentityExact ==
    \A k \in 1..Len(input) : AtSample(k) => result = Ok(input[k][2])

\* C8: for xs pairwise distinct modulo p and ys in [0, p-1],
\* lagrange_interpolation(xs[k], xs, ys) returns a value r with -p < r < p that is
\* ys[k] or ys[k] - p; adding p to it when it is negative, as recover does,
\* gives exactly ys[k].
C8_Identity ==
    \A k \in 1..Len(input) : AtSample(k) =>
        /\ result.ok
        /\ -p < result.val /\ result.val < p
        /\ result.val \in {input[k][2], input[k][2] - p}
        /\ (IF result.val < 0 THEN result.val + p ELSE result.val) = input[k][2]

\* interpolation at xs[1] = 1 of the samples (1, 2), (2, 3) modulo 5 has
\* returned 2 - 5
C8_Witness ==
    /\ AtSample(1) /\ p = 5
    /\ input = <<<<1, 2>>, <<2, 3>>>>
    /\ result = Ok(-3)

\* the values the k-th coefficient of sample_polynomial(s) can take
CoefficientOutcomes(s, k) == {poly[k] : poly \in sample_polynomial(s)}

\* C7 as stated: sample_polynomial(secret) returns t coefficients, the first
\* the secret, and each other coefficient can take every value of [0, p-1],
\* p-1 included, and no other value
C7_Sampling ==
    (Done("split") /\ result.ok) =>
        /\ Len(polynomial) = t
        /\ polynomial[1] = secret
        /\ \A k \in 2..t : CoefficientOutcomes(secret, k) = 0..(p - 1)

\* C2 as stated, read where the n indices are distinct and nonzero modulo p
\* (n < p): whatever t-1 shares of split(s) are seen, every candidate secret c
\* in [0, p-1] has a choice of random coefficients for which split(c) returns
\* the same values at those t-1 indices
C2_Secrecy ==
    (Done("split") /\ result.ok /\ n < p) =>
        \A I \in SUBSET (1..n) :
            Cardinality(I) = t - 1 =>
                \A c \in 0..(p - 1) :
                    \E poly \in sample_polynomial(c) :
                        \A i \in I : mod_evaluate_at(poly, i) = shares[i][2]

====
